---- MODULE Spec2Model ----
(***************************************************************************)
(* Model of parser.py (Markwaydown): a line-driven state machine that      *)
(* turns a small markdown subset into HTML.  Characters are one-character  *)
(* strings; a token, a line and the output buffer are sequences of         *)
(* characters, so that indexing (tokens[0][1]) and slicing behave as in    *)
(* the source.  Str renders a sequence of characters as a string.          *)
(***************************************************************************)
EXTENDS Integers, Sequences, FiniteSets, TLC

VARIABLES
    parser,     \* the Parser object: its six fields
    line,       \* argument of the latest parse_line call
    before,     \* parser.state when the latest parse_line call started
    signal,     \* local `transition` computed by the latest call
    ran,        \* emission actions run by the latest call, in order
    status,     \* "new" | "returned" | "raised" : outcome of the latest call
    stdout,     \* everything print() has written so far
    doc,        \* lines parse_to_html has read so far
    results,    \* values parse_line has returned to parse_to_html so far
    other,      \* a second Parser object, fed independently
    otherCall,  \* the second parser's calls: lines fed so far, and the state
                \* before, the signal and the outcome of the latest one
    emitted     \* how often each emission method has run in parse_to_html

vars == <<parser, line, before, signal, ran, status, stdout, doc, results,
          other, otherCall, emitted>>

(***************************************************************************)
(* Bounds                                                                  *)
(***************************************************************************)
MaxTokLen == 2      \* longest generated first token
MaxTokens == 2      \* most tokens in a generated line
MaxPounds == 8      \* longest run of '#' in a generated heading token
MaxLines == 3       \* longest document fed to parse_to_html

(***************************************************************************)
(* Characters and strings                                                  *)
(***************************************************************************)
NL == <<"\n">>
SP == <<" ">>

\* the separators of line.split(" "): the space character alone
WhitespaceSpaceOnly == {" "}

\* str.split() with no argument separates on runs of whitespace
Whitespace == {" ", "\n", "\t"}

\* str.isdigit() is true of every Unicode digit, ASCII or not
DigitChars == {"0", "1", "2", "3", "4", "5", "6", "7", "8", "9", "²"}

isdigit(c) == c \in DigitChars

RECURSIVE Str(_)
Str(s) == IF s = <<>> THEN "" ELSE Head(s) \o Str(Tail(s))

\* "{}".format(n) for the heading level
format(n) == <<ToString(n)>>

\* sequence slicing s[n:] (0-based n)
SliceFrom(s, n) == IF n >= Len(s) THEN <<>> ELSE SubSeq(s, n + 1, Len(s))

RECURSIVE SplitFrom(_, _, _)
SplitFrom(rest, cur, acc) ==
    IF rest = <<>>
    THEN IF cur = <<>> THEN acc ELSE Append(acc, cur)
    ELSE IF Head(rest) \in Whitespace
         THEN SplitFrom(Tail(rest), <<>>,
                        IF cur = <<>> THEN acc ELSE Append(acc, cur))
         ELSE SplitFrom(Tail(rest), Append(cur, Head(rest)), acc)

\* line.split()
split(l) == SplitFrom(l, <<>>, <<>>)

RECURSIVE join(_)
\* " ".join(toks)
join(toks) ==
    IF toks = <<>> THEN <<>>
    ELSE IF Len(toks) = 1 THEN toks[1]
    ELSE toks[1] \o SP \o join(Tail(toks))

(***************************************************************************)
(* Enumerations                                                            *)
(***************************************************************************)
State == {"INITIAL", "DEFAULT", "HEADING", "PARAGRAPH", "UNORDERED_LIST",
          "ORDERED_LIST"}

Transition == {"POUND_SIGN", "ASTERISK", "OTHER_CHARACTER", "LIST_NUMBER",
               "EMPTY_LINE", "NONE"}

(***************************************************************************)
(* Parser.transition: classification of the token sequence.  Evaluating    *)
(* tokens[0][1] on a one-character token raises IndexError.                *)
(***************************************************************************)
\* the variant of classify that looks for the '.' in the last token
classify_last(tokens) ==
    IF Len(tokens) = 0 THEN "EMPTY_LINE"
    ELSE IF tokens[1][1] = "#" THEN "POUND_SIGN"
    ELSE IF tokens[1][1] = "*" THEN "ASTERISK"
    ELSE IF isdigit(tokens[1][1]) /\ Len(tokens) > 1
         THEN IF Len(tokens[Len(tokens)]) < 2 THEN "IndexError"
              ELSE IF tokens[Len(tokens)][2] = "." THEN "LIST_NUMBER"
              ELSE "OTHER_CHARACTER"
    ELSE "OTHER_CHARACTER"

classify(tokens) ==
    IF Len(tokens) = 0 THEN "EMPTY_LINE"
    ELSE IF tokens[1][1] = "#" THEN "POUND_SIGN"
    ELSE IF tokens[1][1] = "*" THEN "ASTERISK"
    ELSE IF isdigit(tokens[1][1]) /\ Len(tokens) > 1
         THEN IF Len(tokens[1]) < 2 THEN "IndexError"
              ELSE IF tokens[1][2] = "." THEN "LIST_NUMBER"
              ELSE "OTHER_CHARACTER"
    ELSE "OTHER_CHARACTER"

(***************************************************************************)
(* Parser.transition: the table.  An action list of None is <<>>.          *)
(***************************************************************************)
\* the variant of UnorderedListRows that opens the ordered list before closing
\* the unordered one
UnorderedListRowsSwapped ==
    (<<"UNORDERED_LIST", "EMPTY_LINE">> :>
        <<"DEFAULT",
          <<"create_list_item_end", "create_unordered_list_end">> >>) @@
    (<<"UNORDERED_LIST", "ASTERISK">> :>
        <<"UNORDERED_LIST",
          <<"create_list_item_end", "create_list_item_start">> >>) @@
    (<<"UNORDERED_LIST", "LIST_NUMBER">> :>
        <<"ORDERED_LIST",
          <<"create_list_item_end", "create_ordered_list_start",
            "create_unordered_list_end", "create_list_item_start">> >>)

\* the variant of InitialRows that opens the paragraph as DefaultRows does
InitialRowsOpening ==
    (<<"INITIAL", "POUND_SIGN">> :> <<"DEFAULT", <<"create_heading">> >>) @@
    (<<"INITIAL", "ASTERISK">> :> <<"UNORDERED_LIST", <<>> >>) @@
    (<<"INITIAL", "OTHER_CHARACTER">> :>
        <<"PARAGRAPH", <<"create_paragraph_start">> >>) @@
    (<<"INITIAL", "LIST_NUMBER">> :>
        <<"ORDERED_LIST",
          <<"create_ordered_list_start", "create_list_item_start">> >>)

\* the variant of ParagraphRows with a row for a text line inside a paragraph
ParagraphRowsWithText ==
    (<<"PARAGRAPH", "EMPTY_LINE">> :>
        <<"DEFAULT", <<"create_paragraph_end">> >>) @@
    (<<"PARAGRAPH", "OTHER_CHARACTER">> :>
        <<"PARAGRAPH", <<"create_paragraph_start">> >>) @@
    (<<"PARAGRAPH", "ASTERISK">> :>
        <<"UNORDERED_LIST",
          <<"create_paragraph_end", "create_unordered_list_start",
            "create_list_item_start">> >>) @@
    (<<"PARAGRAPH", "LIST_NUMBER">> :>
        <<"ORDERED_LIST",
          <<"create_paragraph_end", "create_ordered_list_start",
            "create_list_item_start">> >>) @@
    (<<"PARAGRAPH", "POUND_SIGN">> :>
        <<"DEFAULT", <<"create_paragraph_end", "create_heading">> >>)

\* the variant of DefaultRows that rests in HEADING after a heading
DefaultRowsHeading ==
    (<<"DEFAULT", "POUND_SIGN">> :> <<"HEADING", <<"create_heading">> >>) @@
    (<<"DEFAULT", "ASTERISK">> :>
        <<"UNORDERED_LIST", <<"create_unordered_list_start">> >>) @@
    (<<"DEFAULT", "OTHER_CHARACTER">> :>
        <<"PARAGRAPH", <<"create_paragraph_start">> >>) @@
    (<<"DEFAULT", "LIST_NUMBER">> :>
        <<"ORDERED_LIST",
          <<"create_ordered_list_start", "create_list_item_start">> >>)

\* the variant of OrderedListRows without the row for an empty line
OrderedListRowsNoEmpty ==
    (<<"ORDERED_LIST", "LIST_NUMBER">> :>
        <<"ORDERED_LIST",
          <<"create_list_item_end", "create_list_item_start">> >>) @@
    (<<"ORDERED_LIST", "ASTERISK">> :>
        <<"UNORDERED_LIST",
          <<"create_list_item_end", "create_ordered_list_end",
            "create_unordered_list_start", "create_list_item_start">> >>)

\* the variant of InitialRows that enters the ordered list without opening it
InitialRowsNoOrderedOpen ==
    (<<"INITIAL", "POUND_SIGN">> :> <<"DEFAULT", <<"create_heading">> >>) @@
    (<<"INITIAL", "ASTERISK">> :> <<"UNORDERED_LIST", <<>> >>) @@
    (<<"INITIAL", "OTHER_CHARACTER">> :> <<"PARAGRAPH", <<>> >>) @@
    (<<"INITIAL", "LIST_NUMBER">> :>
        <<"ORDERED_LIST", <<"create_list_item_start">> >>)

\* the variant of ParagraphRows whose heading row does not close the paragraph
ParagraphRowsHeadingNoClose ==
    (<<"PARAGRAPH", "EMPTY_LINE">> :>
        <<"DEFAULT", <<"create_paragraph_end">> >>) @@
    (<<"PARAGRAPH", "ASTERISK">> :>
        <<"UNORDERED_LIST",
          <<"create_paragraph_end", "create_unordered_list_start",
            "create_list_item_start">> >>) @@
    (<<"PARAGRAPH", "LIST_NUMBER">> :>
        <<"ORDERED_LIST",
          <<"create_paragraph_end", "create_ordered_list_start",
            "create_list_item_start">> >>) @@
    (<<"PARAGRAPH", "POUND_SIGN">> :> <<"DEFAULT", <<"create_heading">> >>)

InitialRows ==
    (<<"INITIAL", "POUND_SIGN">> :> <<"DEFAULT", <<"create_heading">> >>) @@
    (<<"INITIAL", "ASTERISK">> :> <<"UNORDERED_LIST", <<>> >>) @@
    (<<"INITIAL", "OTHER_CHARACTER">> :> <<"PARAGRAPH", <<>> >>) @@
    (<<"INITIAL", "LIST_NUMBER">> :>
        <<"ORDERED_LIST",
          <<"create_ordered_list_start", "create_list_item_start">> >>)

DefaultRows ==
    (<<"DEFAULT", "POUND_SIGN">> :> <<"DEFAULT", <<"create_heading">> >>) @@
    (<<"DEFAULT", "ASTERISK">> :>
        <<"UNORDERED_LIST", <<"create_unordered_list_start">> >>) @@
    (<<"DEFAULT", "OTHER_CHARACTER">> :>
        <<"PARAGRAPH", <<"create_paragraph_start">> >>) @@
    (<<"DEFAULT", "LIST_NUMBER">> :>
        <<"ORDERED_LIST",
          <<"create_ordered_list_start", "create_list_item_start">> >>)

ParagraphRows ==
    (<<"PARAGRAPH", "EMPTY_LINE">> :>
        <<"DEFAULT", <<"create_paragraph_end">> >>) @@
    (<<"PARAGRAPH", "ASTERISK">> :>
        <<"UNORDERED_LIST",
          <<"create_paragraph_end", "create_unordered_list_start",
            "create_list_item_start">> >>) @@
    (<<"PARAGRAPH", "LIST_NUMBER">> :>
        <<"ORDERED_LIST",
          <<"create_paragraph_end", "create_ordered_list_start",
            "create_list_item_start">> >>) @@
    (<<"PARAGRAPH", "POUND_SIGN">> :>
        <<"DEFAULT", <<"create_paragraph_end", "create_heading">> >>)

UnorderedListRows ==
    (<<"UNORDERED_LIST", "EMPTY_LINE">> :>
        <<"DEFAULT",
          <<"create_list_item_end", "create_unordered_list_end">> >>) @@
    (<<"UNORDERED_LIST", "ASTERISK">> :>
        <<"UNORDERED_LIST",
          <<"create_list_item_end", "create_list_item_start">> >>) @@
    (<<"UNORDERED_LIST", "LIST_NUMBER">> :>
        <<"ORDERED_LIST",
          <<"create_list_item_end", "create_unordered_list_end",
            "create_ordered_list_start", "create_list_item_start">> >>)

OrderedListRows ==
    (<<"ORDERED_LIST", "LIST_NUMBER">> :>
        <<"ORDERED_LIST",
          <<"create_list_item_end", "create_list_item_start">> >>) @@
    (<<"ORDERED_LIST", "EMPTY_LINE">> :>
        <<"DEFAULT",
          <<"create_list_item_end", "create_ordered_list_end">> >>) @@
    (<<"ORDERED_LIST", "ASTERISK">> :>
        <<"UNORDERED_LIST",
          <<"create_list_item_end", "create_ordered_list_end",
            "create_unordered_list_start", "create_list_item_start">> >>)

transitions ==
    InitialRows @@ DefaultRows @@ ParagraphRows @@ UnorderedListRows @@
    OrderedListRows

(***************************************************************************)
(* Emission actions: each returns the output buffer after its appends.     *)
(***************************************************************************)
PoundCap == 6

RECURSIVE CountPoundsUncapped(_, _)
\* the counting loop without the limit of six
CountPoundsUncapped(token, count) ==
    IF count < Len(token) /\ token[count + 1] = "#"
    THEN CountPoundsUncapped(token, count + 1)
    ELSE count

RECURSIVE CountPounds(_, _)
\* the counting loop of create_heading, started with count already counted
CountPounds(token, count) ==
    IF count < Len(token) /\ token[count + 1] = "#" /\ count < PoundCap
    THEN CountPounds(token, count + 1)
    ELSE count

pound_sign_count(token) == CountPounds(token, 0)

\* the variant of create_heading that leaves out an empty first fragment
create_heading_trimmed(tokens, output) ==
    LET n == pound_sign_count(tokens[1])
        first == SliceFrom(tokens[1], n)
    IN output \o <<"<", "h">> \o format(n) \o <<">", "\n">>
              \o join((IF first = <<>> THEN <<>> ELSE <<first>>)
                      \o Tail(tokens))
              \o NL
              \o <<"<", "/", "h">> \o format(n) \o <<">">>

create_heading(tokens, output) ==
    LET n == pound_sign_count(tokens[1])
    IN output \o <<"<", "h">> \o format(n) \o <<">", "\n">>
              \o join(<<SliceFrom(tokens[1], n)>> \o Tail(tokens))
              \o NL
              \o <<"<", "/", "h">> \o format(n) \o <<">">>

create_paragraph_start(tokens, output) ==
    output \o <<"<", "p", ">", "\n">> \o join(tokens)

create_paragraph_end(tokens, output) == output \o <<"<", "/", "p", ">">>

create_unordered_list_start(tokens, output) == output \o <<"<", "u", "l", ">">>

create_unordered_list_end(tokens, output) ==
    output \o <<"<", "/", "u", "l", ">">>

\* the variant of create_list_item_start that joins every token, marker included
create_list_item_start_all(tokens, output) ==
    output \o <<"<", "l", "i", ">", "\n">> \o join(tokens)

create_list_item_start(tokens, output) ==
    output \o <<"<", "l", "i", ">", "\n">> \o join(SliceFrom(tokens, 1))

create_list_item_end(tokens, output) == output \o <<"<", "/", "l", "i", ">">>

create_ordered_list_start(tokens, output) == output \o <<"<", "o", "l", ">">>

create_ordered_list_end(tokens, output) ==
    output \o <<"<", "/", "o", "l", ">">>

\* action(): dispatch on the bound method stored in the table
Call(action, tokens, output) ==
    CASE action = "create_heading" -> create_heading(tokens, output)
      [] action = "create_paragraph_start" ->
             create_paragraph_start(tokens, output)
      [] action = "create_paragraph_end" -> create_paragraph_end(tokens, output)
      [] action = "create_unordered_list_start" ->
             create_unordered_list_start(tokens, output)
      [] action = "create_unordered_list_end" ->
             create_unordered_list_end(tokens, output)
      [] action = "create_list_item_start" ->
             create_list_item_start(tokens, output)
      [] action = "create_list_item_end" -> create_list_item_end(tokens, output)
      [] action = "create_ordered_list_start" ->
             create_ordered_list_start(tokens, output)
      [] action = "create_ordered_list_end" ->
             create_ordered_list_end(tokens, output)

RECURSIVE RunAll(_, _, _)
\* the actions run one after another with nothing between them
RunAll(actions, tokens, output) ==
    IF actions = <<>> THEN output
    ELSE RunAll(Tail(actions), tokens, Call(Head(actions), tokens, output))

\* the variant of the loop that adds one newline after the whole list only
RunActionsOneNewline(actions, tokens, output) ==
    IF actions = <<>> THEN output
    ELSE RunAll(actions, tokens, output) \o NL

RECURSIVE RunActions(_, _, _)
\* for action in transition_actions: action(); self.output += "\n"
RunActions(actions, tokens, output) ==
    IF actions = <<>> THEN output
    ELSE RunActions(Tail(actions), tokens,
                    Call(Head(actions), tokens, output) \o NL)

\* the variant of the fallback that leaves out the newline
FallbackNoNewline(tokens) == join(tokens)

\* the fallback of a table miss and of an empty action list
Fallback(tokens) == join(tokens) \o NL

(***************************************************************************)
(* Parser.transition and Parser.parse_line as functions of the object.     *)
(* The result carries the updated object, the locals and whether the call  *)
(* raised.                                                                 *)
(***************************************************************************)
transition(self) ==
    LET t == classify(self.tokens)
        key == <<self.state, t>>
    IN IF t = "IndexError"
       THEN [self |-> self, signal |-> "NONE", ran |-> <<>>, raised |-> TRUE]
       ELSE IF key \notin DOMAIN transitions
       THEN [self |-> [self EXCEPT !.output = Fallback(self.tokens)],
             signal |-> t, ran |-> <<>>, raised |-> FALSE]
       ELSE LET entry == transitions[key]
            IN IF entry[2] # <<>>
               THEN [self |-> [self EXCEPT
                                 !.state = entry[1],
                                 !.output = RunActions(entry[2], self.tokens,
                                                       self.output)],
                     signal |-> t, ran |-> entry[2], raised |-> FALSE]
               ELSE [self |-> [self EXCEPT
                                 !.state = entry[1],
                                 !.output = Fallback(self.tokens)],
                     signal |-> t, ran |-> <<>>, raised |-> FALSE]

\* parse_line without the reset: the buffer of the previous call is kept
KeepOutput(self) == self.output

\* self.output = "" at the start of parse_line
ResetOutput(self) == <<>>

parse_line(self, l) ==
    transition([self EXCEPT !.output = ResetOutput(self), !.tokens = split(l)])

\* Parser.__init__
NewParser ==
    [is_previous_line_newline |-> FALSE,
     is_paragraph |-> FALSE,
     is_unordered_list |-> FALSE,
     state |-> "INITIAL",
     output |-> <<>>,
     tokens |-> <<>>]

\* print(text) with the default end="\n"
print_newline(out, text) == out \o text \o NL

\* print(text, end="") appended to what is already on standard output
print(out, text) == out \o text

(***************************************************************************)
(* Input lines                                                             *)
(***************************************************************************)
\* first characters of a generated first token: one per case of the classifier
TokenAlphabet == {"#", "*", "1", ".", "a"}

\* later characters of a generated first token
TailAlphabet == {".", "a"}

RECURSIVE Tails(_)
\* all words over TailAlphabet of length at most n
Tails(n) ==
    IF n = 0 THEN {<<>>}
    ELSE LET shorter == Tails(n - 1)
         IN shorter \cup {Append(w, c) : w \in shorter, c \in TailAlphabet}

\* all words of length 1..n: a first character followed by a tail
Words(n) == {<<c>> \o t : c \in TokenAlphabet, t \in Tails(n - 1)}

RestTokens == {<<"a">>, <<"1", ".">>}

RECURSIVE Rests(_)
\* all sequences of at most n tokens drawn from RestTokens
Rests(n) ==
    IF n = 0 THEN {<<>>}
    ELSE LET shorter == Rests(n - 1)
         IN shorter \cup {Append(r, t) : r \in shorter, t \in RestTokens}

RECURSIVE Pounds(_)
Pounds(n) == IF n = 0 THEN <<>> ELSE <<"#">> \o Pounds(n - 1)

GeneratedLines ==
    {join(<<w>> \o r) : w \in Words(MaxTokLen), r \in Rests(MaxTokens - 1)}

HeadingLines ==
    {Pounds(n) \o t : n \in 1..MaxPounds,
                      t \in {<<>>, <<"a">>, <<" ", "a">>, <<"a", "#">>}}

L_HelloWorld == <<"H", "e", "l", "l", "o", " ", "w", "o", "r", "l", "d", "\n">>
L_MoreText == <<"m", "o", "r", "e", " ", "t", "e", "x", "t", "\n">>
L_Title2 == <<"#", "#", " ", "T", "i", "t", "l", "e", "\n">>
L_Title3 == <<"#", "#", "#", "T", "i", "t", "l", "e", "\n">>
L_Item1 == <<"1", ".", " ", "I", "t", "e", "m", "\n">>
L_Item10 == <<"1", "0", ".", " ", "I", "t", "e", "m", "\n">>
L_Bullet == <<"*", " ", "x", "\n">>
L_BulletTight == <<"*", "i", "t", "e", "m", "\n">>
L_DigitWord == <<"1", " ", "a", "p", "p", "l", "e", "\n">>
L_SuperDigit == <<"²", ".", " ", "x", "\n">>
L_Empty == <<>>
L_Newline == <<"\n">>
L_Blank == <<" ", "\t", "\n">>
L_Padded == <<" ", "a", " ", " ", "b", " ", "\n">>

ScenarioLines ==
    {L_HelloWorld, L_MoreText, L_Title2, L_Title3, L_Item1, L_Item10,
     L_Bullet, L_BulletTight, L_DigitWord, L_SuperDigit, L_Empty, L_Newline,
     L_Blank, L_Padded}

\* lines fed to a single parser
Lines == GeneratedLines \cup HeadingLines \cup ScenarioLines

\* lines of the documents fed to parse_to_html and to the pair of parsers
DocLines ==
    {L_HelloWorld, L_MoreText, L_Title2, L_Item1, L_Bullet, L_DigitWord,
     L_Newline, L_Empty, <<"a">>, <<"#", "#", "#", "#", "#", "#", "#", "a">>}

L_ItemDots == <<"1", ".", " ", "1", ".", "\n">>
L_BulletPound == <<"*", " ", "#", "\n">>
L_DigitDots == <<"1", " ", "1", ".", "\n">>

\* lines in pairs with the same first token and a different second token
ClassLines ==
    {L_Item1, L_ItemDots, L_Bullet, L_BulletPound, L_DigitWord, L_DigitDots}

L_Words == <<"a", " ", "b">>
L_BulletWide == <<" ", "*", "\t", " ", "x">>

\* lines in pairs that differ in the amount of whitespace only
WsLines ==
    {L_Newline, L_Blank, L_Bullet, L_BulletWide, L_Padded, L_Words, L_Item1}

\* lines fed to the two independent parsers
PairLines == {L_Newline, L_Item1, L_DigitWord, <<"a">>}

\* the emission methods of Parser
Methods ==
    {"create_heading", "create_paragraph_start", "create_paragraph_end",
     "create_unordered_list_start", "create_unordered_list_end",
     "create_list_item_start", "create_list_item_end",
     "create_ordered_list_start", "create_ordered_list_end"}

\* number of times method m occurs in the action list actions
Occurrences(actions, m) ==
    Cardinality({i \in DOMAIN actions : actions[i] = m})

(***************************************************************************)
(* Initial state and actions                                               *)
(***************************************************************************)
Init ==
    /\ parser = NewParser
    /\ line = <<>>
    /\ before = "INITIAL"
    /\ signal = "NONE"
    /\ ran = <<>>
    /\ status = "new"
    /\ stdout = <<>>
    /\ doc = <<>>
    /\ results = <<>>
    /\ other = NewParser
    /\ otherCall = [doc |-> <<>>, before |-> "INITIAL", signal |-> "NONE",
                    status |-> "new"]
    /\ emitted = [m \in Methods |-> 0]

\* one call parser.parse_line(l); an uncaught exception ends the program
ParseLine(l) ==
    /\ status # "raised"
    /\ LET r == parse_line(parser, l)
       IN /\ parser' = r.self
          /\ line' = l
          /\ before' = parser.state
          /\ signal' = r.signal
          /\ ran' = r.ran
          /\ status' = IF r.raised THEN "raised" ELSE "returned"
    /\ UNCHANGED <<stdout, doc, results, other, otherCall, emitted>>

\* one call other.parse_line(l) on the second parser
OtherParseLine(l) ==
    /\ otherCall.status # "raised"
    /\ Len(otherCall.doc) < MaxLines
    /\ LET r == parse_line(other, l)
       IN /\ other' = r.self
          /\ otherCall' = [doc |-> Append(otherCall.doc, l),
                           before |-> other.state,
                           signal |-> r.signal,
                           status |-> IF r.raised THEN "raised"
                                      ELSE "returned"]
    /\ UNCHANGED <<parser, line, before, signal, ran, status, stdout, doc,
                   results, emitted>>

\* one iteration of the loop of parse_to_html:
\* print(parser.parse_line(line), end="")
DriverStep(l) ==
    /\ status # "raised"
    /\ Len(doc) < MaxLines
    /\ LET r == parse_line(parser, l)
       IN /\ parser' = r.self
          /\ line' = l
          /\ before' = parser.state
          /\ signal' = r.signal
          /\ ran' = r.ran
          /\ status' = IF r.raised THEN "raised" ELSE "returned"
          /\ doc' = Append(doc, l)
          /\ results' = IF r.raised THEN results
                        ELSE Append(results, r.self.output)
          /\ stdout' = IF r.raised THEN stdout
                       ELSE print(stdout, r.self.output)
          /\ emitted' = [m \in Methods |->
                            emitted[m] + Occurrences(r.ran, m)]
    /\ UNCHANGED <<other, otherCall>>

Next == \E l \in Lines : ParseLine(l)

Spec == Init /\ [][Next]_vars

DocNext == \E l \in DocLines : DriverStep(l)

DocSpec == Init /\ [][DocNext]_vars

PairNext ==
    \/ \E l \in PairLines : DriverStep(l)
    \/ \E l \in PairLines : OtherParseLine(l)

PairSpec == Init /\ [][PairNext]_vars

\* two parsers fed lines that share a first token and differ in the rest
ClassNext ==
    \/ \E l \in ClassLines : ParseLine(l)
    \/ \E l \in ClassLines : OtherParseLine(l)

ClassSpec == Init /\ [][ClassNext]_vars

\* two parsers fed lines that differ in their whitespace only
WsNext ==
    \/ \E l \in WsLines : ParseLine(l)
    \/ \E l \in WsLines : OtherParseLine(l)

WsSpec == Init /\ [][WsNext]_vars

TypeOK ==
    /\ parser.state \in State
    /\ signal \in Transition
    /\ status \in {"new", "returned", "raised"}
    /\ Len(results) <= Len(doc)

(***************************************************************************)
(* The specification's vocabulary, written from the specification's        *)
(* tables and rules, against which the behaviour above is compared.        *)
(***************************************************************************)
EmptyLine == "EMPTY_LINE"
Heading == "POUND_SIGN"
ListBullet == "ASTERISK"
OrderedMarker == "LIST_NUMBER"
OtherText == "OTHER_CHARACTER"

FiveSignals == {EmptyLine, Heading, ListBullet, OrderedMarker, OtherText}

AsciiDigits == {"0", "1", "2", "3", "4", "5", "6", "7", "8", "9"}

Min(a, b) == IF a < b THEN a ELSE b

Range(f) == {f[i] : i \in DOMAIN f}

RECURSIVE Flatten(_)
Flatten(ss) == IF ss = <<>> THEN <<>> ELSE Head(ss) \o Flatten(Tail(ss))

RECURSIVE LeadingPounds(_)
\* number of consecutive leading '#' characters of a token
LeadingPounds(token) ==
    IF token # <<>> /\ Head(token) = "#" THEN 1 + LeadingPounds(Tail(token))
    ELSE 0

\* the classifier as the stated priority order decides it
ClassifierRule(tokens) ==
    IF tokens = <<>> THEN EmptyLine
    ELSE IF Head(tokens[1]) = "#" THEN Heading
    ELSE IF Head(tokens[1]) = "*" THEN ListBullet
    ELSE IF /\ Head(tokens[1]) \in AsciiDigits
            /\ Len(tokens) >= 2
            /\ Len(tokens[1]) >= 2
            /\ tokens[1][2] = "."
         THEN OrderedMarker
    ELSE OtherText

\* the 18 rows of the transition table: <<from, signal, to, actions>>
TableRows ==
    {<<"INITIAL", Heading, "DEFAULT", <<"emit-heading">> >>,
     <<"INITIAL", ListBullet, "UNORDERED_LIST", <<>> >>,
     <<"INITIAL", OtherText, "PARAGRAPH", <<>> >>,
     <<"INITIAL", OrderedMarker, "ORDERED_LIST",
       <<"open-ordered-list", "open-list-item">> >>,
     <<"DEFAULT", Heading, "DEFAULT", <<"emit-heading">> >>,
     <<"DEFAULT", ListBullet, "UNORDERED_LIST", <<"open-unordered-list">> >>,
     <<"DEFAULT", OtherText, "PARAGRAPH", <<"open-paragraph">> >>,
     <<"DEFAULT", OrderedMarker, "ORDERED_LIST",
       <<"open-ordered-list", "open-list-item">> >>,
     <<"PARAGRAPH", EmptyLine, "DEFAULT", <<"close-paragraph">> >>,
     <<"PARAGRAPH", ListBullet, "UNORDERED_LIST",
       <<"close-paragraph", "open-unordered-list", "open-list-item">> >>,
     <<"PARAGRAPH", OrderedMarker, "ORDERED_LIST",
       <<"close-paragraph", "open-ordered-list", "open-list-item">> >>,
     <<"PARAGRAPH", Heading, "DEFAULT", <<"close-paragraph", "emit-heading">> >>,
     <<"UNORDERED_LIST", EmptyLine, "DEFAULT",
       <<"close-list-item", "close-unordered-list">> >>,
     <<"UNORDERED_LIST", ListBullet, "UNORDERED_LIST",
       <<"close-list-item", "open-list-item">> >>,
     <<"UNORDERED_LIST", OrderedMarker, "ORDERED_LIST",
       <<"close-list-item", "close-unordered-list", "open-ordered-list",
         "open-list-item">> >>,
     <<"ORDERED_LIST", OrderedMarker, "ORDERED_LIST",
       <<"close-list-item", "open-list-item">> >>,
     <<"ORDERED_LIST", EmptyLine, "DEFAULT",
       <<"close-list-item", "close-ordered-list">> >>,
     <<"ORDERED_LIST", ListBullet, "UNORDERED_LIST",
       <<"close-list-item", "close-ordered-list", "open-unordered-list",
         "open-list-item">> >>}

TablePairs == {<<row[1], row[2]>> : row \in TableRows}

RowOf(s, g) == CHOOSE row \in TableRows : row[1] = s /\ row[2] = g

\* the specification's name of each emission method
ActionName ==
    ("create_heading" :> "emit-heading") @@
    ("create_paragraph_start" :> "open-paragraph") @@
    ("create_paragraph_end" :> "close-paragraph") @@
    ("create_unordered_list_start" :> "open-unordered-list") @@
    ("create_unordered_list_end" :> "close-unordered-list") @@
    ("create_ordered_list_start" :> "open-ordered-list") @@
    ("create_ordered_list_end" :> "close-ordered-list") @@
    ("create_list_item_start" :> "open-list-item") @@
    ("create_list_item_end" :> "close-list-item")

RanNames == [i \in DOMAIN ran |-> ActionName[ran[i]]]

\* the text each emission action appends, as the specification words it
Fragment(name, tokens) ==
    CASE name = "emit-heading" ->
           LET n == Min(LeadingPounds(tokens[1]), 6)
           IN <<"<", "h", ToString(n), ">", "\n">>
              \o join(<<SubSeq(tokens[1], n + 1, Len(tokens[1]))>>
                      \o Tail(tokens))
              \o <<"\n", "<", "/", "h", ToString(n), ">">>
      [] name = "open-paragraph" -> <<"<", "p", ">", "\n">> \o join(tokens)
      [] name = "close-paragraph" -> <<"<", "/", "p", ">">>
      [] name = "open-unordered-list" -> <<"<", "u", "l", ">">>
      [] name = "close-unordered-list" -> <<"<", "/", "u", "l", ">">>
      [] name = "open-ordered-list" -> <<"<", "o", "l", ">">>
      [] name = "close-ordered-list" -> <<"<", "/", "o", "l", ">">>
      [] name = "open-list-item" ->
           <<"<", "l", "i", ">", "\n">> \o join(Tail(tokens))
      [] name = "close-list-item" -> <<"<", "/", "l", "i", ">">>

\* the tokens of the latest line joined by single spaces, plus one newline
Continuation == join(parser.tokens) \o NL

Returned == status = "returned"

(***************************************************************************)
(* C1.  parse_line never raises: every call returns, having classified     *)
(* the line as one of the five signals.                                    *)
(***************************************************************************)
C1_NeverRaises ==
    status # "new" => status = "returned" /\ signal \in FiveSignals

(***************************************************************************)
(* C2.  On each of the 18 pairs of the transition table, parse_line leaves *)
(* the parser in the listed To state and runs exactly the listed emission  *)
(* actions in the listed order.                                            *)
(***************************************************************************)
C2_TableRows ==
    Returned /\ <<before, signal>> \in TablePairs =>
        LET row == RowOf(before, signal)
        IN /\ parser.state = row[3]
           /\ RanNames = row[4]

C2_Witness ==
    /\ Returned
    /\ before = "UNORDERED_LIST"
    /\ signal = OrderedMarker
    /\ parser.state = "ORDERED_LIST"
    /\ RanNames = <<"close-list-item", "close-unordered-list",
                    "open-ordered-list", "open-list-item">>
    /\ Str(parser.output) = "</li>\n</ul>\n<ol>\n<li>\nItem\n"

(***************************************************************************)
(* C3.  On every pair that is not in the transition table, parse_line      *)
(* returns the tokens joined by single spaces plus one newline and leaves  *)
(* the state as it was.                                                    *)
(***************************************************************************)
C3_Fallback ==
    Returned /\ <<before, signal>> \notin TablePairs =>
        /\ parser.output = Continuation
        /\ parser.state = before
        /\ ran = <<>>

C3_Witness ==
    /\ Returned
    /\ before = "PARAGRAPH"
    /\ line = L_MoreText
    /\ signal = OtherText
    /\ Str(parser.output) = "more text\n"
    /\ parser.state = "PARAGRAPH"

(***************************************************************************)
(* C4.  The classifier's result is decided by the priority order: empty,   *)
(* then '#', then '*', then (ASCII digit, at least two tokens, '.' as the  *)
(* second character of the first token), then other text.                  *)
(***************************************************************************)
C4_ClassifierPriority ==
    status # "new" =>
        /\ status = "returned"
        /\ signal = ClassifierRule(parser.tokens)

(***************************************************************************)
(* C5.  From Initial, an OtherText or ListBullet line emits only its       *)
(* tokens joined by spaces plus a newline, with no tag, and still moves to *)
(* Paragraph or UnorderedList; the document "Hello world", "more text",    *)
(* "" prints exactly "Hello world\nmore text\n</p>\n" and ends in Default. *)
(***************************************************************************)
C5_InitialOpensNoTag ==
    /\ Returned /\ before = "INITIAL" /\ signal \in {OtherText, ListBullet} =>
          /\ parser.output = Continuation
          /\ "<" \notin Range(parser.output)
          /\ ran = <<>>
          /\ parser.state = IF signal = OtherText THEN "PARAGRAPH"
                            ELSE "UNORDERED_LIST"
    /\ doc \in {<<L_HelloWorld, L_MoreText, L_Empty>>,
                <<L_HelloWorld, L_MoreText, L_Newline>>} =>
          /\ Str(stdout) = "Hello world\nmore text\n</p>\n"
          /\ parser.state = "DEFAULT"

C5_Witness ==
    /\ doc = <<L_HelloWorld, L_MoreText, L_Newline>>
    /\ results = <<L_HelloWorld, L_MoreText, <<"<", "/", "p", ">", "\n">> >>
    /\ Str(stdout) = "Hello world\nmore text\n</p>\n"
    /\ parser.state = "DEFAULT"

(***************************************************************************)
(* C6.  Whenever emit-heading runs, the level n of both <h{n}> and </h{n}> *)
(* is min(number of leading '#' of the first token, 6), 1 <= n <= 6, and   *)
(* '#' characters beyond the sixth stay in the heading text.               *)
(***************************************************************************)
C6_HeadingLevel ==
    Returned /\ "create_heading" \in Range(ran) =>
        LET first == parser.tokens[1]
            n == Min(LeadingPounds(first), 6)
            closing == IF before = "PARAGRAPH"
                       THEN <<"<", "/", "p", ">", "\n">> ELSE <<>>
        IN /\ 1 <= n /\ n <= 6
           /\ parser.output =
                 closing
                 \o <<"<", "h", ToString(n), ">", "\n">>
                 \o join(<<SubSeq(first, n + 1, Len(first))>>
                         \o Tail(parser.tokens))
                 \o <<"\n", "<", "/", "h", ToString(n), ">", "\n">>

C6_Witness ==
    /\ Returned
    /\ ran = <<"create_heading">>
    /\ parser.tokens = << <<"#", "#", "#", "#", "#", "#", "#", "#", "a">> >>
    /\ Str(parser.output) = "<h6>\n##a\n</h6>\n"

(***************************************************************************)
(* C7.  A Heading line processed in Default or Initial returns             *)
(* "<h{n}>\n" + T + "\n</h{n}>\n", T being the space-join of the first     *)
(* token without its n counted '#' and the remaining tokens: "## Title"    *)
(* gives "<h2>\n Title\n</h2>\n", "###Title" gives "<h3>\nTitle\n</h3>\n". *)
(***************************************************************************)
C7_HeadingOutput ==
    Returned /\ signal = Heading /\ before \in {"DEFAULT", "INITIAL"} =>
        /\ \E n \in 1..6 :
              /\ n <= Len(parser.tokens[1])
              /\ \A i \in 1..n : parser.tokens[1][i] = "#"
              /\ Str(parser.output) =
                    "<h" \o ToString(n) \o ">\n"
                    \o Str(join(<<SliceFrom(parser.tokens[1], n)>>
                                \o Tail(parser.tokens)))
                    \o "\n</h" \o ToString(n) \o ">\n"
        /\ line = L_Title2 => Str(parser.output) = "<h2>\n Title\n</h2>\n"
        /\ line = L_Title3 => Str(parser.output) = "<h3>\nTitle\n</h3>\n"

C7_Witness ==
    /\ Returned
    /\ before = "DEFAULT"
    /\ line = L_Title2
    /\ parser.tokens = << <<"#", "#">>, <<"T", "i", "t", "l", "e">> >>
    /\ Str(parser.output) = "<h2>\n Title\n</h2>\n"

C9_FunctionOfStateAndTokens ==
    (/\ status # "new"
     /\ otherCall.status # "new"
     /\ before = otherCall.before
     /\ parser.tokens = other.tokens)
    => /\ status = otherCall.status
       /\ parser.output = other.output
       /\ parser.state = other.state

C9_Witness ==
    /\ Returned
    /\ otherCall.status = "returned"
    /\ doc = <<<<"a">>, L_Newline, L_Item1>>
    /\ otherCall.doc = <<L_Item1, L_Newline, L_Item1>>
    /\ before = "DEFAULT"
    /\ otherCall.before = "DEFAULT"
    /\ parser.tokens = other.tokens
    /\ Str(parser.output) = "<ol>\n<li>\nItem\n"
    /\ other.output = parser.output
    /\ other.state = "ORDERED_LIST"

(***************************************************************************)
(* C10.  Initial is never re-entered: the state is Initial exactly when    *)
(* every line processed so far was empty; the first non-empty line always  *)
(* leaves Initial.                                                         *)
(***************************************************************************)
C10_InitialIffAllEmpty ==
    (parser.state = "INITIAL") <=>
        (\A i \in 1..Len(doc) : split(doc[i]) = <<>>)
(***************************************************************************)
(* C11.  Heading is never a resting state: after every parse_line call the *)
(* state is one of Initial, Default, Paragraph, UnorderedList, OrderedList *)
(* and never HEADING, and every call that runs emit-heading (from Initial, *)
(* Default or Paragraph) leaves the state Default.                         *)
(***************************************************************************)
C11_HeadingNeverRests ==
    /\ parser.state \in {"INITIAL", "DEFAULT", "PARAGRAPH", "UNORDERED_LIST",
                         "ORDERED_LIST"}
    /\ Returned /\ "emit-heading" \in Range(RanNames) =>
          /\ before \in {"INITIAL", "DEFAULT", "PARAGRAPH"}
          /\ parser.state = "DEFAULT"

C11_Witness ==
    /\ Returned
    /\ before = "DEFAULT"
    /\ signal = Heading
    /\ RanNames = <<"emit-heading">>
    /\ parser.state = "DEFAULT"
(***************************************************************************)
(* C12.  On a table hit with k >= 1 actions the output is the              *)
(* concatenation, in listed order, of each action's fragment followed by   *)
(* one newline, so the driver inserts exactly k newlines besides those     *)
(* inside the fragments: OrderedList + ListBullet on ['*', 'x'] returns    *)
(* "</li>\n</ol>\n<ul>\n<li>\nx\n".                                        *)
(***************************************************************************)
RECURSIVE FragmentsWithNewlines(_, _)
FragmentsWithNewlines(names, tokens) ==
    IF names = <<>> THEN <<>>
    ELSE Fragment(Head(names), tokens) \o <<"\n">>
         \o FragmentsWithNewlines(Tail(names), tokens)

RECURSIVE FragmentsBare(_, _)
FragmentsBare(names, tokens) ==
    IF names = <<>> THEN <<>>
    ELSE Fragment(Head(names), tokens) \o FragmentsBare(Tail(names), tokens)

NewlineCount(text) == Cardinality({i \in DOMAIN text : text[i] = "\n"})

C12_NewlinePerAction ==
    /\ Returned /\ Len(ran) >= 1 =>
          /\ parser.output = FragmentsWithNewlines(RanNames, parser.tokens)
          /\ NewlineCount(parser.output) =
                Len(ran)
                + NewlineCount(FragmentsBare(RanNames, parser.tokens))
    /\ Returned /\ before = "ORDERED_LIST" /\ line = L_Bullet =>
          Str(parser.output) = "</li>\n</ol>\n<ul>\n<li>\nx\n"

C12_Witness ==
    /\ Returned
    /\ before = "ORDERED_LIST"
    /\ line = L_Bullet
    /\ parser.tokens = << <<"*">>, <<"x">> >>
    /\ Len(ran) = 4
    /\ NewlineCount(parser.output) = 5
    /\ Str(parser.output) = "</li>\n</ol>\n<ul>\n<li>\nx\n"
(***************************************************************************)
(* C13.  Whenever open-list-item runs, its fragment is "<li>", a newline   *)
(* and the space-join of all tokens but the first: the marker token is     *)
(* never rendered, and a line of one token such as "*item" gives just      *)
(* "<li>" and a newline, its text dropped.                                 *)
(***************************************************************************)
Suffix(text, n) == SubSeq(text, Len(text) - n + 1, Len(text))

C13_ListItemDropsMarker ==
    /\ Returned /\ "create_list_item_start" \in Range(ran) =>
          LET item == <<"<", "l", "i", ">", "\n">>
                      \o join(Tail(parser.tokens)) \o <<"\n">>
          IN /\ ran[Len(ran)] = "create_list_item_start"
             /\ Occurrences(ran, "create_list_item_start") = 1
             /\ Len(parser.output) >= Len(item)
             /\ Suffix(parser.output, Len(item)) = item
             /\ Len(parser.tokens) = 1 =>
                   Suffix(parser.output, 6) = <<"<", "l", "i", ">", "\n", "\n">>
    /\ Returned /\ before = "UNORDERED_LIST" /\ line = L_BulletTight =>
          Str(parser.output) = "</li>\n<li>\n\n"

C13_Witness ==
    /\ Returned
    /\ before = "UNORDERED_LIST"
    /\ line = L_BulletTight
    /\ parser.tokens = << <<"*", "i", "t", "e", "m">> >>
    /\ ran = <<"create_list_item_end", "create_list_item_start">>
    /\ Str(parser.output) = "</li>\n<li>\n\n"
(***************************************************************************)
(* C14.  Classification inspects only the first token: two token sequences *)
(* with the same first token and the same number of tokens are classified  *)
(* alike, whatever their second and later tokens are.                      *)
(***************************************************************************)
C14_FirstTokenDecides ==
    (/\ status # "new"
     /\ otherCall.status # "new"
     /\ Len(parser.tokens) = Len(other.tokens)
     /\ parser.tokens # <<>> => parser.tokens[1] = other.tokens[1])
    => /\ status = otherCall.status
       /\ signal = otherCall.signal

C14_Witness ==
    /\ Returned
    /\ otherCall.status = "returned"
    /\ parser.tokens = << <<"1", ".">>, <<"I", "t", "e", "m">> >>
    /\ other.tokens = << <<"1", ".">>, <<"1", ".">> >>
    /\ before # otherCall.before
    /\ signal = OrderedMarker
    /\ otherCall.signal = OrderedMarker
(***************************************************************************)
(* C15.  Tokenization discards whitespace: an empty or whitespace-only     *)
(* line has no tokens and is an EmptyLine, no token is the empty string,   *)
(* and two lines that differ only in the amount of leading, trailing or    *)
(* inter-word whitespace give the same output and the same next state from *)
(* any given state.                                                        *)
(***************************************************************************)
Blank == {" ", "\t", "\n"}

RECURSIVE SqueezeFrom(_, _, _)
\* the words of a line one space apart, without leading or trailing blanks
SqueezeFrom(rest, pending, acc) ==
    IF rest = <<>> THEN acc
    ELSE IF Head(rest) \in Blank
         THEN SqueezeFrom(Tail(rest), acc # <<>>, acc)
         ELSE SqueezeFrom(Tail(rest), FALSE,
                          (IF pending THEN Append(acc, " ") ELSE acc)
                          \o <<Head(rest)>>)

Squeeze(l) == SqueezeFrom(l, FALSE, <<>>)

OtherLine == otherCall.doc[Len(otherCall.doc)]

ProperTokens(tokens) ==
    \A i \in DOMAIN tokens :
        /\ tokens[i] # <<>>
        /\ \A j \in DOMAIN tokens[i] : tokens[i][j] \notin Blank

C15_WhitespaceDiscarded ==
    /\ (status # "new" /\ \A i \in DOMAIN line : line[i] \in Blank) =>
          /\ parser.tokens = <<>>
          /\ Returned
          /\ signal = EmptyLine
    /\ ProperTokens(parser.tokens)
    /\ ProperTokens(other.tokens)
    /\ (/\ status # "new"
        /\ otherCall.status # "new"
        /\ before = otherCall.before
        /\ Squeeze(line) = Squeeze(OtherLine)) =>
          /\ status = otherCall.status
          /\ parser.output = other.output
          /\ parser.state = other.state

C15_Witness ==
    /\ Returned
    /\ otherCall.status = "returned"
    /\ before = "UNORDERED_LIST"
    /\ otherCall.before = "UNORDERED_LIST"
    /\ line = L_Padded
    /\ OtherLine = L_Words
    /\ Str(parser.output) = "a b\n"
    /\ other.output = parser.output
    /\ other.state = "UNORDERED_LIST"
    /\ parser.state = "UNORDERED_LIST"
(***************************************************************************)
(* C16.  An empty line resets the block state to Default once Initial has  *)
(* been left: from Default, Paragraph, UnorderedList and OrderedList an    *)
(* EmptyLine leaves the parser in Default, and from Initial in Initial.    *)
(***************************************************************************)
C16_EmptyLineResets ==
    (status # "new" /\ \A i \in DOMAIN line : line[i] \in Blank) =>
        /\ Returned
        /\ signal = EmptyLine
        /\ parser.state = IF before = "INITIAL" THEN "INITIAL" ELSE "DEFAULT"

C16_Witness ==
    /\ Returned
    /\ line = L_Blank
    /\ signal = EmptyLine
    /\ before = "ORDERED_LIST"
    /\ parser.state = "DEFAULT"
    /\ Str(parser.output) = "</li>\n</ol>\n"
(***************************************************************************)
(* C17.  Ordered-list tags are balanced with the state: after any sequence *)
(* of lines, the number of open-ordered-list actions run minus the number  *)
(* of close-ordered-list actions run is 1 when the state is OrderedList    *)
(* and 0 in every other state.                                             *)
(***************************************************************************)
OrderedBalance ==
    emitted["create_ordered_list_start"] - emitted["create_ordered_list_end"]

C17_OrderedListBalanced ==
    OrderedBalance = IF parser.state = "ORDERED_LIST" THEN 1 ELSE 0

C17_Witness ==
    /\ doc = <<L_Item1, L_Bullet, L_Item1>>
    /\ Returned
    /\ emitted["create_ordered_list_start"] = 2
    /\ emitted["create_ordered_list_end"] = 1
    /\ parser.state = "ORDERED_LIST"
(***************************************************************************)
(* C18.  In every run whose first non-empty line is not classified         *)
(* OtherText, the number of open-paragraph actions run minus the number of *)
(* close-paragraph actions run is 1 when the state is Paragraph and 0      *)
(* otherwise: every transition that leaves Paragraph runs close-paragraph  *)
(* first, and close-paragraph runs only on lines processed in Paragraph.   *)
(***************************************************************************)
ParagraphBalance ==
    emitted["create_paragraph_start"] - emitted["create_paragraph_end"]

NonEmptyLines == {i \in DOMAIN doc : Squeeze(doc[i]) # <<>>}

\* the first non-empty line of the document, if any, is classified OtherText
TextFirst ==
    /\ NonEmptyLines # {}
    /\ LET first == CHOOSE i \in NonEmptyLines :
                        \A j \in NonEmptyLines : i <= j
       IN classify(split(doc[first])) = OtherText

C18_ParagraphBalanced ==
    /\ ~TextFirst =>
          ParagraphBalance = IF parser.state = "PARAGRAPH" THEN 1 ELSE 0
    /\ (Returned /\ before = "PARAGRAPH" /\ parser.state # "PARAGRAPH") =>
          (ran # <<>> /\ ran[1] = "create_paragraph_end")
    /\ "create_paragraph_end" \in Range(ran) => before = "PARAGRAPH"

C18_Witness ==
    /\ doc = <<L_Title2, L_HelloWorld, L_Newline>>
    /\ ~TextFirst
    /\ Returned
    /\ before = "PARAGRAPH"
    /\ emitted["create_paragraph_start"] = 1
    /\ emitted["create_paragraph_end"] = 1
    /\ parser.state = "DEFAULT"
(***************************************************************************)
(* C19.  Every result parse_line returns, on a table hit with actions, a   *)
(* table hit without actions or a table miss, is a non-empty string whose  *)
(* last character is a newline.                                            *)
(***************************************************************************)
C19_ResultEndsWithNewline ==
    Returned =>
        /\ parser.output # <<>>
        /\ parser.output[Len(parser.output)] = "\n"

C19_Witness ==
    /\ Returned
    /\ before = "INITIAL"
    /\ line = L_Bullet
    /\ <<before, signal>> \in TablePairs
    /\ ran = <<>>
    /\ Str(parser.output) = "* x\n"
====
